---- MODULE Spec2Model ----
(***************************************************************************)
(* The carrot coroutine scheduler (Control / katana / Script variant).     *)
(*                                                                         *)
(* One driver thread runs a test script (Update(), Cancel(), Restart(),    *)
(* Transition(), "for !IsDone() { Update() }"); every Control owns one      *)
(* loopRunner goroutine.  The two sides meet only on the katana's          *)
(* unbuffered channel and on the two atomic words state / action.          *)
(* Every step of the model is one atomic memory operation of the code      *)
(* (an atomic Load, Store or CompareAndSwap, a channel rendezvous, a       *)
(* mutex-protected slice access) together with the thread-local            *)
(* computation that follows it.  The two rendezvous of one YieldLeft /     *)
(* YieldRight pair are one step: each katana has one sender and one        *)
(* receiver, so nothing can come between them.                             *)
(***************************************************************************)
EXTENDS Integers, Sequences, FiniteSets, TLC

\* ------------------------------------------------------------- bounds
\* Controls that sit pre-allocated in coroutinePool.
NumPooled == 2
\* Script.Update() calls the driver may begin in one behaviour.
MaxUpdates == 10
\* The same for the TestAsyncSimple scenario, which runs three bodies, and
\* for the scenario of a parent awaiting one short child.
MaxUpdatesAsync == 4
MaxUpdatesWait == 3
\* The same for the scenario of a parent that starts two short children.
MaxUpdatesTwins == 2
\* Entries one Control's subControls may hold: no body here keeps more than
\* two children, and a StartAsync that finds MaxSubs entries waits.
MaxSubs == 2
\* Segments of the first child of TestAsyncSimple (the test runs 10).
SegA == 2
\* Yield() calls of the body of TestBlocking (the test makes 12).
NumYields == 3
\* Threads besides the driver that call Cancel(), Restart() or Transition()
\* (TestTransition2 starts three: here one thread makes the calls of two).
NumOthers == 2
\* Where the counts of Update() calls and of segments stop growing in the
\* scenarios whose driver never stops calling Update().
MaxCount == 6
\* Ticks of the wall clock in one microsecond (time.Duration counts 1000
\* nanoseconds in one).
TicksPerMicro == 2
\* Where the wall clock stops.
MaxTime == 4
\* Ticks the body of TestSleep sleeps (the test sleeps 50 ms).
SleepTicks == 3
\* Update() calls of the scenario of TestSleep.
MaxUpdatesSleep == 4
\* update() calls on the main insectoid.
MaxUpdatesInsect == 2
\* YieldLeft() calls and YieldRight() calls made on the katana taken alone.
MaxCalls == 12
\* the elements of the sliceSet are 0..MaxElem, its items at most MaxItems
MaxElem == 2
MaxItems == 4

\* ---------------------------------------------------- program constants
\* TestCoroutineCancel: for i := 0; i < 10; i++
LoopN == 10
\* TestCoroutineCancel: if i == 4 { ctrl.Cancel() }
CancelAt == 4
\* TestAsyncSimple, second child: counter.Add(100)
IncB == 100

\* Script.baseControl
Root == 0
Pooled == 1..NumPooled
Ctrl == {Root} \cup Pooled
Others == 1..NumOthers
NoCtrl == Root - 1

\* the insectoid that calls StartAsyncAR and the one made for the coroutine
Insects == {"insect", "subInsect"}
\* insectoid.updateTask, and the blocker and the completion that StartAsyncAR
\* allocates for the insectoid it makes
Task(kind, i) == <<kind, i>>
Tasks == {"updateTask", "blocker", "completion"} \X Insects

\* coState / coAction flags (the words are modelled as sets of flags)
stateRunning == "running"
stateStopping == "stopping"
stateCancel == "cancel"
actionCancel == "cancel"
actionRestart == "restart"

\* --------------------------------------------------- coroutine bodies
Ins(op, a, b) == [op |-> op, a |-> a, b |-> b]
Inc(k) == Ins("inc", k, 0)
YieldI == Ins("yield", 0, 0)
CancelI == Ins("cancel", 0, 0)
\* sub.Cancel() on the SubControl kept in a variable of the body
CancelSub(slot) == Ins("cancel", slot, 0)
Spawn(body, slot) == Ins("spawn", body, slot)
Until(slot) == Ins("until", slot, 0)
Jmp(to) == Ins("jmp", to, 0)

RECURSIVE Rep(_, _)
Rep(n, s) == IF n = 0 THEN <<>> ELSE s \o Rep(n - 1, s)

\* TestCoroutineWithoutYield: count.Add(1)
ProgOnce == <<Inc(1)>>

\* TestCoroutineCancel: Yield(); if i == 4 { Cancel() }; count.Add(1)
RECURSIVE CancelLoopFrom(_)
CancelLoopFrom(i) ==
  IF i >= LoopN THEN <<>>
  ELSE <<YieldI>> \o (IF i = CancelAt THEN <<CancelI>> ELSE <<>>)
       \o <<Inc(1)>> \o CancelLoopFrom(i + 1)
ProgCancelLoop == CancelLoopFrom(0)

\* TestAsyncSimple: main coroutine and its two children
ProgParent == <<Spawn("A", 1), Spawn("B", 2), Until(1)>>
ProgA == Rep(SegA, <<Inc(1), YieldI>>)
ProgB == <<Inc(IncB), YieldI, Jmp(1)>>

\* BenchmarkYield-like body with a visible side effect per segment
ProgTicker == <<Inc(1), YieldI, Jmp(1)>>
\* a parent that keeps one endless child and keeps yielding itself
ProgFamily == <<Spawn("B", 1), Inc(1), YieldI, Jmp(2)>>
\* a parent that waits for one short child: YieldUntil(sub.IsDone)
ProgWaiter == <<Spawn("once", 1), Until(1)>>
\* BenchmarkAsync: the child body func(ctrl *carrot.Control) {}
ProgEmpty == <<>>
\* a parent that starts two such children, as BenchmarkAsync does over two
\* iterations, and returns; slot 0: the SubControl is not kept
ProgTwins == <<Spawn("empty", 0), Spawn("empty", 0)>>
\* TestCoroutineRestart: count.Add(1); for i < 100 { if i == 10 { ctrl.Cancel() } }
ProgCountCancel == <<Inc(1), CancelI>>
\* the body installed by Transition()
ProgNext == <<Inc(IncB)>>
\* TestBlocking: for i := 0; i < 12; i++ { ctrl.Yield() }
ProgYields == Rep(NumYields, <<YieldI>>)
\* TestTransition2, BenchmarkYield: for { ctrl.Yield() }
ProgYielder == <<YieldI, Jmp(1)>>
\* a parent in the way of subA of TestAsyncNested: it starts two children,
\* cancels the first after one Yield() and goes on counting
ProgCanceller ==
  <<Spawn("yielder", 1), Spawn("B", 2), YieldI, CancelSub(1), Inc(1), YieldI, Jmp(5)>>
\* a body whose first statement differs from those of its later segments:
\* count.Add(1); for { ctrl.Yield(); count.Add(100) }
ProgStepper == <<Inc(1), YieldI, Inc(IncB), Jmp(2)>>
\* TestSleep: ctrl.Sleep(50 * time.Millisecond), after a Sleep(0); the
\* counter tells which of the two has returned
\* TestChildAsyncRemoval: for { ctrl.StartAsync(child); ctrl.Yield() }, the
\* child being for n := 0; n < 1; n++ { ctrl.Yield() }
ProgSpawner == <<Spawn("oneYield", 0), YieldI, Jmp(1)>>
ProgOneYield == <<YieldI>>
ProgSleeper == <<Ins("sleep", 0, 0), Inc(1), Ins("sleep", SleepTicks, 0), Inc(IncB)>>

Prog(b) ==
  CASE b = "once" -> ProgOnce
    [] b = "cancelLoop" -> ProgCancelLoop
    [] b = "parent" -> ProgParent
    [] b = "A" -> ProgA
    [] b = "B" -> ProgB
    [] b = "ticker" -> ProgTicker
    [] b = "family" -> ProgFamily
    [] b = "next" -> ProgNext
    [] b = "waiter" -> ProgWaiter
    [] b = "twins" -> ProgTwins
    [] b = "empty" -> ProgEmpty
    [] b = "countCancel" -> ProgCountCancel
    [] b = "yields" -> ProgYields
    [] b = "stepper" -> ProgStepper
    [] b = "yielder" -> ProgYielder
    [] b = "canceller" -> ProgCanceller
    [] b = "sleeper" -> ProgSleeper
    [] b = "spawner" -> ProgSpawner
    [] b = "oneYield" -> ProgOneYield
    [] OTHER -> <<>>

\* ------------------------------------------------------ driver scripts
Op(op, a) == [op |-> op, a |-> a]
LoopUntilDone == Op("loop", "")
UpdateOp == Op("update", "")
CancelOp == Op("cancel", "")
RestartOp == Op("restart", "")
TransitionOp(b) == Op("transition", b)
\* for i := 0; i < 100000; i++ { script.Update() }
ForeverUpdate == Op("forever", "")

\* the tests and benchmarks with at most one child, with TestAsyncSimple, and
\* with the parent of two short-lived children
CoreScenarios ==
  {"NoYield", "Restart", "CancelLoop", "CancelOne", "CancelTree", "WaitChild", "Transition",
   "CreateAsync", "Sleep"}
Scenarios ==
  CoreScenarios \cup {"AsyncSimple", "Create", "RestartRunning", "CancelChild",
                      "CancelRestart", "RestartCancel", "CancelFirst",
                      "ChildAsyncRemoval"}
\* the scenarios whose driver never stops calling Update()
LiveScenarios == {"Blocking", "Hammer", "TransitionAsync"}
TwinsScenarios == CoreScenarios \cup {"Twins"}

RootBody(s) ==
  CASE s = "NoYield" -> "once"
    [] s = "Restart" -> "countCancel"
    [] s = "CancelLoop" -> "cancelLoop"
    [] s = "AsyncSimple" -> "parent"
    [] s = "CancelTree" -> "family"
    [] s = "CancelOne" -> "ticker"
    [] s = "WaitChild" -> "waiter"
    [] s = "Twins" -> "twins"
    [] s = "Transition" -> "ticker"
    [] s = "Create" -> "nil"
    [] s = "RestartRunning" -> "stepper"
    [] s = "Blocking" -> "yields"
    [] s = "CreateAsync" -> "nil"
    [] s = "CancelChild" -> "canceller"
    [] s = "Hammer" -> "yielder"
    [] s = "TransitionAsync" -> "yielder"
    [] s = "Sleep" -> "sleeper"
    [] s = "CancelRestart" -> "ticker"
    [] s = "RestartCancel" -> "ticker"
    [] s = "CancelFirst" -> "ticker"
    [] s = "ChildAsyncRemoval" -> "spawner"
    [] s = "Futures" -> "nil"
    [] s = "Katana" -> "nil"
    [] s = "SliceSet" -> "nil"

DriverScript(s) ==
  CASE s = "NoYield" -> <<LoopUntilDone>>
    [] s = "Restart" -> <<LoopUntilDone, RestartOp, LoopUntilDone>>
    [] s = "CancelLoop" -> <<LoopUntilDone>>
    [] s = "AsyncSimple" -> <<LoopUntilDone>>
    [] s = "CancelTree" -> <<UpdateOp, UpdateOp, CancelOp, UpdateOp, UpdateOp, UpdateOp>>
    [] s = "CancelOne" -> <<UpdateOp, UpdateOp, CancelOp, UpdateOp, UpdateOp>>
    [] s = "WaitChild" -> <<LoopUntilDone>>
    [] s = "Twins" -> <<LoopUntilDone>>
    [] s = "Transition" -> <<UpdateOp, UpdateOp, TransitionOp("next"), UpdateOp, UpdateOp, UpdateOp>>
    [] s = "Create" -> <<UpdateOp, UpdateOp, TransitionOp("next"), LoopUntilDone>>
    [] s = "RestartRunning" -> <<UpdateOp, UpdateOp, RestartOp, UpdateOp, UpdateOp>>
    [] s = "Blocking" -> <<LoopUntilDone>>
    [] s = "CreateAsync" -> <<UpdateOp, UpdateOp, UpdateOp>>
    [] s = "CancelChild" -> <<UpdateOp, UpdateOp, UpdateOp, UpdateOp>>
    [] s = "Hammer" -> <<ForeverUpdate>>
    [] s = "TransitionAsync" -> <<ForeverUpdate>>
    [] s = "Sleep" -> <<LoopUntilDone>>
    [] s = "CancelRestart" -> <<UpdateOp, UpdateOp, CancelOp, RestartOp, UpdateOp, UpdateOp, UpdateOp>>
    [] s = "RestartCancel" -> <<UpdateOp, UpdateOp, RestartOp, CancelOp, UpdateOp, UpdateOp, UpdateOp>>
    [] s = "CancelFirst" -> <<CancelOp, UpdateOp, UpdateOp, UpdateOp>>
    [] s = "ChildAsyncRemoval" -> <<LoopUntilDone>>

\* the calls the other threads make, and whether they repeat them for ever
OtherScript(s, t) ==
  CASE s = "CreateAsync" /\ t = 1 -> <<TransitionOp("next")>>
    [] s = "TransitionAsync" /\ t = 1 -> <<TransitionOp("yields")>>
    [] s = "Hammer" /\ t = 1 -> <<RestartOp, TransitionOp("yielder")>>
    [] s = "Hammer" /\ t = 2 -> <<CancelOp>>
    [] OTHER -> <<>>
OtherRepeats(s) == s = "Hammer"

\* the cap on Update() calls of a scenario
UpdateCap(s) ==
  CASE s = "AsyncSimple" -> MaxUpdatesAsync
    [] s = "WaitChild" -> MaxUpdatesWait
    [] s = "Twins" -> MaxUpdatesTwins
    [] s = "Sleep" -> MaxUpdatesSleep
    [] s = "ChildAsyncRemoval" -> MaxUpdatesWait
    [] OTHER -> MaxUpdates

\* n + 1, but the counts stop where Update() is called for ever: at MaxCount
\* in TestBlocking, whose claim counts the calls, and at once elsewhere
CountCap(s) == IF s = "Blocking" THEN MaxCount ELSE 1
Bump(s, n) == IF s \in LiveScenarios /\ n >= CountCap(s) THEN n ELSE n + 1
\* the driver may begin another Update()
CanUpdate(s, n) == s \in LiveScenarios \/ n < UpdateCap(s)

VARIABLES
  sc,           \* the scenario (test) being run
  now,          \* the wall clock, in ticks
  state,        \* Control.state
  action,       \* Control.action
  coroutine,    \* Control.coroutine
  subControls,  \* Control.subControls
  pool,         \* coroutinePool
  g,            \* the loopRunner goroutine of every Control
  drv,          \* the driver thread: script position and update() call stack
  oth,          \* the other threads that call Cancel(), Restart(), Transition()
  counter,      \* the shared counter the bodies add to
  nUpd,         \* Script.Update() calls begun
  segs,         \* per Control: segments of a body started
  canceled,     \* insectoid.canceled
  subInsects,   \* insectoid.subInsects (the items of the sliceSet)
  tasks,        \* the quest tasks: each insectoid's updateTask, blocker, completion
  co,           \* the goroutines of StartAsyncAR and the threads around them
  kat,          \* one katana taken alone: its channel and its two callers
  nums          \* one sliceSet taken alone: its items and the last call on it

\* the variables of the insectoid variant, and those of the Control variant
insectVars == <<canceled, subInsects, tasks, co>>
controlVars ==
  <<sc, now, state, action, coroutine, subControls, pool, g, drv, oth, counter, nUpd, segs>>
vars == <<controlVars, insectVars, kat, nums>>

\* ----------------------------------------------------------- atombits
IsSet(bits, flag) == flag \in bits
\* value|flag and value&^flag
SetBits(value, flags) == value \cup flags
UnsetBits(value, flags) == value \ flags
\* atomic.Uint32.CompareAndSwap(old, new): the word afterwards.  atombits.Set
\* and atombits.Unset load the word and then CompareAndSwap once, without a
\* retry: when the word changed in between, the update is dropped.
CompareAndSwap(cur, old, new) == IF cur = old THEN new ELSE cur

\* Control.IsRunning, isRestarting, isCancelling, isCanceled on loaded words
IsRunning(st) == IsSet(st, stateRunning)
isRestarting(ac) == IsSet(ac, actionRestart)
isCancelling(ac) == IsSet(ac, actionCancel)
isCanceled(st) == IsSet(st, stateCancel)

\* ------------------------------------------------ goroutine registers
GIdle ==
  [pc |-> "lr_recv", ph |-> "load", tmp |-> {}, bpc |-> 0, body |-> "nil",
   subs |-> <<>>, i |-> 0, slots |-> <<NoCtrl, NoCtrl>>, child |-> NoCtrl,
   startTime |-> 0, latched |-> FALSE]

\* a jmp is local control flow: it is followed when the pc moves
Resolve(b, p) ==
  IF p <= Len(Prog(b)) /\ Prog(b)[p].op = "jmp" THEN Prog(b)[p].a ELSE p

\* The goroutine position once the body's pc is p: past the end the body has
\* returned into loopRunner (waitForSubsToEnd comes next); at a Yield() the
\* goroutine blocks in YieldRight's receive.
Settle(rec, p) ==
  IF p > Len(Prog(rec.body))
  THEN [rec EXCEPT !.pc = "wf_stop", !.ph = "load", !.bpc = 0, !.body = "nil",
                   !.slots = <<NoCtrl, NoCtrl>>]
  ELSE IF Prog(rec.body)[p].op = "yield"
       THEN [rec EXCEPT !.pc = "y_recv", !.bpc = p]
       ELSE [rec EXCEPT !.pc = "body", !.bpc = p]

Advance(rec) == Settle(rec, Resolve(rec.body, rec.bpc + 1))

\* catchCancellation: the panic(ErrCancelled) of Yield() unwinds the body
Unwind(rec) ==
  [rec EXCEPT !.pc = "wf_stop", !.ph = "load", !.bpc = 0, !.body = "nil",
              !.slots = <<NoCtrl, NoCtrl>>]

CurIns(c) == Prog(g[c].body)[g[c].bpc]

\* ------------------------------------------------------ driver frames
Frame(c, pc) ==
  [c |-> c, pc |-> pc, ph |-> "load", tmp |-> {}, rn |-> FALSE, subs |-> <<>>,
   i |-> 0, temp |-> <<>>, rem |-> FALSE, stop |-> FALSE, seen |-> <<>>]

Depth == Len(drv.stack)
Top == drv.stack[Depth]
InFrame(pc) == Depth > 0 /\ Top.pc = pc
SetTop(f) == [drv EXCEPT !.stack[Depth] = f]
Push(f, g2) == [drv EXCEPT !.stack = Append(SubSeq(@, 1, Depth - 1), f) \o <<g2>>]
\* return from update(): the caller's frame, or the script (pc "ret")
Pop ==
  [drv EXCEPT !.stack = SubSeq(@, 1, Depth - 1),
              !.pc = IF Depth = 1 THEN "ret" ELSE @]

\* ------------------------------------------------- the katana alone
\* the main thread calls YieldLeft, the coroutine's goroutine YieldRight
Sides == {"YieldLeft", "YieldRight"}

\* a channel of capacity 1: "make(chan Void, 1)"
newKatanaBuffered == [len |-> 0, cap |-> 1]
\* newKatana(): "c: make(chan Void)", an unbuffered channel
newKatana == [len |-> 0, cap |-> 0]

\* the channel operations of a call, in order
KatanaOps(side) ==
  IF side = "YieldLeft" THEN <<"send", "recv">> ELSE <<"recv", "send">>

\* the channel operation a caller is blocked in (pos 0: between calls,
\* pos 3: both operations done, about to return)
OpAt(side) ==
  IF kat.pos[side] \in 1..2 THEN KatanaOps(side)[kat.pos[side]] ELSE "none"

\* One call on the katana, step by step.  A send on the channel completes
\* when the other side is blocked in a receive (both go on), or when the
\* buffer has room; a receive completes from the buffer or with a send.
KatanaCall(side) ==
  LET other == CHOOSE o \in Sides : o # side IN
  \/ /\ kat.pos[side] = 0 /\ kat.begun[side] < MaxCalls
     /\ kat' = [kat EXCEPT !.pos[side] = 1, !.begun[side] = @ + 1]
     /\ UNCHANGED <<nums, controlVars, insectVars>>
  \/ /\ \/ OpAt(side) = "send" /\ OpAt(other) = "recv" /\ kat.c.len = 0
        \/ OpAt(side) = "send" /\ kat.c.len < kat.c.cap
        \/ OpAt(side) = "recv" /\ kat.c.len > 0
     /\ kat' = IF OpAt(side) = "recv"
               THEN [kat EXCEPT !.pos[side] = @ + 1, !.c.len = @ - 1]
               ELSE IF OpAt(other) = "recv" /\ kat.c.len = 0
                    THEN [kat EXCEPT !.pos[side] = @ + 1, !.pos[other] = @ + 1]
                    ELSE [kat EXCEPT !.pos[side] = @ + 1, !.c.len = @ + 1]
     /\ UNCHANGED <<nums, controlVars, insectVars>>
  \/ /\ kat.pos[side] = 3
     /\ kat' = [kat EXCEPT !.pos[side] = 0, !.completed[side] = @ + 1]
     /\ UNCHANGED <<nums, controlVars, insectVars>>

\* func (k *katana) YieldLeft() { k.c <- None; <-k.c }
YieldLeft == KatanaCall("YieldLeft")
\* func (k *katana) YieldRight() { <-k.c; k.c <- None }
YieldRight == KatanaCall("YieldRight")

NextKatana == YieldLeft \/ YieldRight

\* ------------------------------------------------ the sliceSet alone
\* sliceSet[int], as in TestSliceConcurrency: the elements, and the zero value
Elems == 0..MaxElem
Zero == 0
\* newSliceSet(): new(sliceSet[T]), items is nil
newSliceSet == <<>>

\* slices.Index(s, v): the index (from 0) of the first occurrence, or -1
Index(s, v) ==
  IF \E k \in DOMAIN s : s[k] = v
  THEN (CHOOSE k \in DOMAIN s : s[k] = v /\ \A j \in 1..(k - 1) : s[j] # v) - 1
  ELSE -1

\* slices.Delete(s, i, j): the elements from j on are moved down to i inside
\* the array of s, and the shorter slice is returned.  array is what the
\* array holds afterwards over the old length of s: the vacated tail keeps
\* its old elements, or holds the zero value where the library clears it.
Delete(s, i, j, clearTail) ==
  LET array == [k \in 1..Len(s) |->
                  IF k <= i THEN s[k]
                  ELSE IF k + (j - i) <= Len(s) THEN s[k + (j - i)]
                  ELSE IF clearTail THEN Zero ELSE s[k]]
  IN [result |-> SubSeq(array, 1, Len(s) - (j - i)), array |-> array]

\* sliceSet.Add: append unless slices.Index finds x
Add(items, x) == IF Index(items, x) >= 0 THEN items ELSE Append(items, x)
\* sliceSet.Remove: "slices.Delete(slice.items, index, index+1)", and the
\* slice it returns is dropped: slice.items keeps its length
Remove(items, x, clearTail) ==
  LET index == Index(items, x) IN
  IF index >= 0 THEN Delete(items, index, index + 1, clearTail).array ELSE items
\* sliceSet.Clear: slice.items = slice.items[:0]
Clear(items) == SubSeq(items, 1, 0)
\* sliceSet.Each: the elements fn is called with, in order
Each(items) == IF Len(items) = 0 THEN <<>> ELSE items

sliceSet_Add ==
  \E x \in Elems :
    /\ Len(Add(nums.items, x)) <= MaxItems
    /\ nums' = [items |-> Add(nums.items, x), op |-> "Add", x |-> x]
    /\ UNCHANGED <<kat, controlVars, insectVars>>

sliceSet_Remove ==
  \E x \in Elems, clearTail \in BOOLEAN :
    /\ nums' = [items |-> Remove(nums.items, x, clearTail), op |-> "Remove", x |-> x]
    /\ UNCHANGED <<kat, controlVars, insectVars>>

sliceSet_Clear ==
  /\ nums' = [items |-> Clear(nums.items), op |-> "Clear", x |-> Zero]
  /\ UNCHANGED <<kat, controlVars, insectVars>>

NextSliceSet == sliceSet_Add \/ sliceSet_Remove \/ sliceSet_Clear

\* ---------------------------------------------------------------- Init
\* Start(coroutine) or Create(): NewControl() has spawned loopRunner,
\* initialize() has stored the body (nil for Create) and requested Restart.  The pooled Controls were made by
\* PreAllocCoroutines: their loopRunners wait in the first YieldRight.
InitOf(scenarios) ==
  /\ sc \in scenarios
  /\ now = 0
  /\ state = [c \in Ctrl |-> IF c = Root THEN {} ELSE {stateRunning}]
  /\ action = [c \in Ctrl |-> IF c = Root THEN {actionRestart} ELSE {}]
  /\ coroutine = [c \in Ctrl |-> IF c = Root THEN RootBody(sc) ELSE "nil"]
  /\ subControls = [c \in Ctrl |-> <<>>]
  /\ pool = [k \in 1..NumPooled |-> k]
  /\ g = [c \in Ctrl |-> IF c = Root THEN [GIdle EXCEPT !.pc = "lr0"] ELSE GIdle]
  /\ drv = [ip |-> 1, pc |-> "top", stack |-> <<>>, resumed |-> FALSE, susp |-> FALSE,
            at |-> 0]
  /\ oth = [t \in Others |-> [ip |-> 1, pc |-> "top", tmp |-> {}, at |-> 0]]
  /\ counter = 0
  /\ nUpd = 0
  /\ segs = [c \in Ctrl |-> 0]
  /\ canceled = [i \in Insects |-> FALSE]
  /\ subInsects = [i \in Insects |-> <<>>]
  /\ tasks = [t \in Tasks |-> "pending"]
  /\ co = [body |-> "spawn", sub |-> "idle", cleanup |-> "idle", ext |-> "top",
           resolves |-> 0, updates |-> 0]
  /\ kat = [c |-> newKatana,
            pos |-> [side \in Sides |-> 0],
            begun |-> [side \in Sides |-> 0],
            completed |-> [side \in Sides |-> 0]]
  /\ nums = [items |-> newSliceSet, op |-> "new", x |-> Zero]

\* ------------------------------------------- goroutine: atombits calls
\* The atombits.Set / Unset calls of the goroutine side, by position:
\* the word, the Control it belongs to, the flags, and where the code goes next.
GBitOp(c) ==
  LET pc == g[c].pc IN
  CASE pc = "lr0" ->
         [word |-> "state", on |-> c, set |-> TRUE, flags |-> {stateRunning}, next |-> "lr_recv"]
    [] pc = "lr_run" ->
         [word |-> "state", on |-> c, set |-> TRUE, flags |-> {stateRunning}, next |-> "enter"]
    [] pc = "wf_stop" ->
         [word |-> "state", on |-> c, set |-> TRUE, flags |-> {stateStopping}, next |-> "wf_read"]
    [] pc = "wf_unstop" ->
         [word |-> "state", on |-> c, set |-> FALSE, flags |-> {stateStopping}, next |-> "lr_unrun"]
    [] pc = "lr_unrun" ->
         [word |-> "state", on |-> c, set |-> FALSE, flags |-> {stateRunning}, next |-> "lr_recv"]
    [] pc = "sp_restart" ->
         [word |-> "action", on |-> g[c].child, set |-> TRUE, flags |-> {actionRestart}, next |-> "sp_append"]

GBitPcs == {"lr0", "lr_run", "wf_stop", "wf_unstop", "lr_unrun", "sp_restart"}

Word(op) == IF op.word = "state" THEN state[op.on] ELSE action[op.on]
NewValue(op, value) ==
  IF op.set THEN SetBits(value, op.flags) ELSE UnsetBits(value, op.flags)

\* value := bits.Load()
GBitLoad(c) ==
  /\ g[c].pc \in GBitPcs /\ g[c].ph = "load"
  /\ g' = [g EXCEPT ![c].tmp = Word(GBitOp(c)), ![c].ph = "cas"]
  /\ UNCHANGED <<nums, kat, insectVars, sc, now, oth, state, action, coroutine, subControls, pool, drv, counter, nUpd, segs>>

\* loopRunner after a bit operation: startCoroutine() reads ctrl.coroutine
\* and enters the body at its first statement
GAfterBit(c, next) ==
  LET r == [g[c] EXCEPT !.ph = "load", !.tmp = {}] IN
  IF next = "enter"
  THEN Settle([r EXCEPT !.body = coroutine[c]], Resolve(coroutine[c], 1))
  ELSE [r EXCEPT !.pc = next]

\* bits.CompareAndSwap(value, value|flag) / (value, value&^flag)
GBitCas(c) ==
  /\ g[c].pc \in GBitPcs /\ g[c].ph = "cas"
  /\ LET op == GBitOp(c)
         w == CompareAndSwap(Word(op), g[c].tmp, NewValue(op, g[c].tmp))
     IN /\ state' = IF op.word = "state" THEN [state EXCEPT ![op.on] = w] ELSE state
        /\ action' = IF op.word = "action" THEN [action EXCEPT ![op.on] = w] ELSE action
        /\ g' = [g EXCEPT ![c] = GAfterBit(c, op.next)]
        /\ segs' = IF op.next = "enter" THEN [segs EXCEPT ![c] = Bump(sc, @)] ELSE segs
  /\ UNCHANGED <<nums, kat, insectVars, sc, now, oth, coroutine, subControls, pool, drv, counter, nUpd>>

\* ------------------------------------------------------------- katana
RecvPcs == {"lr_recv", "y_recv", "wf_recv"}
\* where the caller of YieldRight continues: loopRunner sets the running
\* flag, Yield() checks the cancel latch, waitForSubsToEnd polls again
AfterYieldRight(rec) ==
  CASE rec.pc = "lr_recv" -> [rec EXCEPT !.pc = "lr_run", !.ph = "load"]
    [] rec.pc = "y_recv" -> [rec EXCEPT !.pc = "y_check"]
    [] rec.pc = "wf_recv" -> [rec EXCEPT !.pc = "wf_poll", !.i = 1]

\* update() without the test "ctrl.coroutine != nil"
YieldLeftWithoutBody(body, st, restartNow) == IsRunning(st) \/ restartNow

\* a goroutine that takes the driver's send in loopRunner and in Yield() but
\* not while it polls its subs in waitForSubsToEnd
ReadyOutsideWait(c) == g[c].pc \in RecvPcs \ {"wf_recv"}
\* the goroutine blocked in YieldRight's "<-k.c" is ready for the driver's send
ReadyToReceive(c) == g[c].pc \in RecvPcs

\* YieldLeft "k.c <- None; <-k.c" meets YieldRight "<-k.c; k.c <- None": both
\* calls return; the driver goes on to the sweep of the subs
katana(c) ==
  /\ InFrame("yl_send") /\ Top.c = c
  /\ ReadyToReceive(c)
  /\ drv' = [SetTop([Top EXCEPT !.pc = "u_subs"]) EXCEPT !.resumed = (c = Root) \/ @]
  /\ g' = [g EXCEPT ![c] = [AfterYieldRight(g[c]) EXCEPT !.latched = isCanceled(state[c])]]
  /\ UNCHANGED <<nums, kat, insectVars, sc, now, oth, state, action, coroutine, subControls, pool, counter, nUpd, segs>>

\* --------------------------------------------------- Control.Yield
\* Yield(): after YieldRight returns, "if ctrl.isCanceled() { panic }".
\* A body resumed without cancellation starts its next segment; inside
\* YieldUntil the loop condition is evaluated again.
Yield_isCanceled(c) ==
  /\ g[c].pc = "y_check"
  /\ IF isCanceled(state[c])
     THEN /\ g' = [g EXCEPT ![c] = Unwind([g[c] EXCEPT !.latched = FALSE])]
          /\ segs' = segs
     ELSE /\ g' = [g EXCEPT ![c] =
                     LET rec == [g[c] EXCEPT !.latched = FALSE] IN
                     IF CurIns(c).op = "until" THEN [rec EXCEPT !.pc = "body"]
                     ELSE IF CurIns(c).op = "sleep" THEN [rec EXCEPT !.pc = "sl_since"]
                     ELSE Advance(rec)]
          /\ segs' = [segs EXCEPT ![c] = Bump(sc, @)]
  /\ UNCHANGED <<nums, kat, insectVars, sc, now, oth, state, action, coroutine, subControls, pool, drv, counter, nUpd>>

\* ---------------------------------------------------- Control.Sleep
\* time.Duration.Microseconds(): the whole microseconds of a duration
Microseconds(d) == d \div TicksPerMicro

\* Sleep: startTime := time.Now(), and the first ctrl.Yield() of the loop
Sleep_Now(c) ==
  /\ g[c].pc = "body" /\ CurIns(c).op = "sleep"
  /\ g' = [g EXCEPT ![c].startTime = now, ![c].pc = "y_recv"]
  /\ UNCHANGED <<nums, kat, insectVars, sc, now, oth, state, action, coroutine, subControls, pool, drv, counter, nUpd, segs>>

\* a Sleep that lasts one frame whatever the duration
SleepOneFrame(elapsed, sleepDuration) == TRUE
\* if elapsed.Microseconds() >= sleepDuration.Microseconds() { break }
SleepIsOver(elapsed, sleepDuration) == Microseconds(elapsed) >= Microseconds(sleepDuration)

\* Sleep: elapsed := time.Since(startTime) and the test that ends the loop;
\* otherwise the next ctrl.Yield()
Sleep_Since(c) ==
  /\ g[c].pc = "sl_since"
  /\ g' = [g EXCEPT ![c] =
             IF SleepIsOver(now - g[c].startTime, CurIns(c).a)
             THEN Advance([g[c] EXCEPT !.pc = "body"])
             ELSE [g[c] EXCEPT !.pc = "y_recv"]]
  /\ UNCHANGED <<nums, kat, insectVars, sc, now, oth, state, action, coroutine, subControls, pool, drv, counter, nUpd, segs>>

\* the wall clock advances; only Sleep reads it, and it is kept in the
\* scenario whose body sleeps
Tick ==
  /\ sc = "Sleep" /\ now < MaxTime
  /\ now' = now + 1
  /\ UNCHANGED <<nums, kat, insectVars, sc, oth, state, action, coroutine, subControls, pool, g, drv, counter, nUpd, segs>>

\* ------------------------------------------------- body statements
AtStatement(c, op) == g[c].pc = "body" /\ CurIns(c).op = op

\* counter.Add(k): the body's side effect
BodyInc(c) ==
  /\ AtStatement(c, "inc")
  /\ counter' = counter + CurIns(c).a
  /\ g' = [g EXCEPT ![c] = Advance(g[c])]
  /\ UNCHANGED <<nums, kat, insectVars, sc, now, oth, state, action, coroutine, subControls, pool, drv, nUpd, segs>>

\* a body that cancels its own Control where it should cancel a sub
CancelOwn(c) == c
\* the Control a Cancel() in the body is called on: the body's own (ctrl), or
\* the SubControl in one of its variables
CancelTarget(c) == IF CurIns(c).a = 0 THEN c ELSE g[c].slots[CurIns(c).a]

\* Control.Cancel() called by the body: action.Store(actionCancel)
BodyCancel(c) ==
  /\ AtStatement(c, "cancel")
  /\ action' = [action EXCEPT ![CancelTarget(c)] = {actionCancel}]
  /\ g' = [g EXCEPT ![c] = Advance(g[c])]
  /\ UNCHANGED <<nums, kat, insectVars, sc, now, oth, state, coroutine, subControls, pool, drv, counter, nUpd, segs>>

\* StartAsync: subIn := allocCoroutine(); subIn.initialize(coroutine) up to
\* "ctrl.coroutine = coroutine".  The Restart() of initialize follows as the
\* atombits call at "sp_restart".  mud.Alloc makes a new Control when the pool
\* is empty; the model has NumPooled Controls besides the main one, and a
\* StartAsync that finds the pool empty waits.  The pool is taken first in,
\* first out.
StartAsync_alloc(c) ==
  /\ AtStatement(c, "spawn")
  /\ pool # <<>>
  /\ LET sub == Head(pool) IN
       /\ pool' = Tail(pool)
       /\ coroutine' = [coroutine EXCEPT ![sub] = CurIns(c).a]
       /\ g' = [g EXCEPT ![c].child = sub, ![c].pc = "sp_restart", ![c].ph = "load"]
  /\ UNCHANGED <<nums, kat, insectVars, sc, now, oth, state, action, subControls, drv, counter, nUpd, segs>>

\* the body's variables after "v := ctrl.StartAsync(...)" (slot 0: no variable)
Keep(slots, slot, sub) == IF slot = 0 THEN slots ELSE [slots EXCEPT ![slot] = sub]

\* StartAsync: ctrl.subControls = append(ctrl.subControls, subIn), under the lock
StartAsync_append(c) ==
  /\ g[c].pc = "sp_append"
  /\ Len(subControls[c]) < MaxSubs
  /\ subControls' = [subControls EXCEPT ![c] = Append(@, g[c].child)]
  /\ g' = [g EXCEPT ![c] =
             Advance([g[c] EXCEPT !.pc = "body", !.child = NoCtrl,
                                  !.slots = Keep(@, CurIns(c).b, g[c].child)])]
  /\ UNCHANGED <<nums, kat, insectVars, sc, now, oth, state, action, coroutine, pool, drv, counter, nUpd, segs>>

\* YieldUntil(sub.IsDone): IsDone() loads the state word first ...
YieldUntil_IsRunning(c) ==
  /\ AtStatement(c, "until")
  /\ g' = [g EXCEPT ![c].pc =
             IF IsRunning(state[g[c].slots[CurIns(c).a]]) THEN "y_recv" ELSE "until2"]
  /\ UNCHANGED <<nums, kat, insectVars, sc, now, oth, state, action, coroutine, subControls, pool, drv, counter, nUpd, segs>>

\* ... and the action word only when the Control is not running
YieldUntil_isRestarting(c) ==
  /\ g[c].pc = "until2"
  /\ g' = [g EXCEPT ![c] =
             IF isRestarting(action[g[c].slots[CurIns(c).a]])
             THEN [g[c] EXCEPT !.pc = "y_recv"]
             ELSE Advance([g[c] EXCEPT !.pc = "body"])]
  /\ UNCHANGED <<nums, kat, insectVars, sc, now, oth, state, action, coroutine, subControls, pool, drv, counter, nUpd, segs>>

\* ------------------------------------------------ waitForSubsToEnd
\* subs := ctrl.subControls (under RLock).  With no subs the two loops and
\* the clear do nothing and the deferred Unset(stateStopping) comes next.
waitForSubsToEnd_read(c) ==
  /\ g[c].pc = "wf_read"
  /\ g' = [g EXCEPT ![c] =
             IF subControls[c] = <<>>
             THEN [g[c] EXCEPT !.pc = "wf_unstop", !.ph = "load"]
             ELSE [g[c] EXCEPT !.pc = "wf_cancel", !.subs = subControls[c], !.i = 1]]
  /\ UNCHANGED <<nums, kat, insectVars, sc, now, oth, state, action, coroutine, subControls, pool, drv, counter, nUpd, segs>>

\* for _, s := range subs { s.Cancel() }
waitForSubsToEnd_cancel(c) ==
  /\ g[c].pc = "wf_cancel"
  /\ action' = [action EXCEPT ![g[c].subs[g[c].i]] = {actionCancel}]
  /\ g' = [g EXCEPT ![c] =
             IF g[c].i < Len(g[c].subs) THEN [g[c] EXCEPT !.i = @ + 1]
             ELSE [g[c] EXCEPT !.pc = "wf_poll", !.i = 1]]
  /\ UNCHANGED <<nums, kat, insectVars, sc, now, oth, state, coroutine, subControls, pool, drv, counter, nUpd, segs>>

\* the polling loop: s.IsDone(), first load; a sub that is not done sends the
\* goroutine into YieldRight
waitForSubsToEnd_IsRunning(c) ==
  /\ g[c].pc = "wf_poll"
  /\ g' = [g EXCEPT ![c].pc =
             IF IsRunning(state[g[c].subs[g[c].i]]) THEN "wf_recv" ELSE "wf_poll2"]
  /\ UNCHANGED <<nums, kat, insectVars, sc, now, oth, state, action, coroutine, subControls, pool, drv, counter, nUpd, segs>>

\* s.IsDone(), second load
waitForSubsToEnd_isRestarting(c) ==
  /\ g[c].pc = "wf_poll2"
  /\ g' = [g EXCEPT ![c] =
             IF isRestarting(action[g[c].subs[g[c].i]]) THEN [g[c] EXCEPT !.pc = "wf_recv"]
             ELSE IF g[c].i < Len(g[c].subs) THEN [g[c] EXCEPT !.pc = "wf_poll", !.i = @ + 1]
             ELSE [g[c] EXCEPT !.pc = "wf_clear"]]
  /\ UNCHANGED <<nums, kat, insectVars, sc, now, oth, state, action, coroutine, subControls, pool, drv, counter, nUpd, segs>>

\* ctrl.subControls = ctrl.subControls[:0] (under Lock)
waitForSubsToEnd_clear(c) ==
  /\ g[c].pc = "wf_clear"
  /\ subControls' = [subControls EXCEPT ![c] = <<>>]
  /\ g' = [g EXCEPT ![c].pc = "wf_free", ![c].i = 1]
  /\ UNCHANGED <<nums, kat, insectVars, sc, now, oth, state, action, coroutine, pool, drv, counter, nUpd, segs>>

\* for _, s := range subs { freeCoroutine(s) }
waitForSubsToEnd_free(c) ==
  /\ g[c].pc = "wf_free"
  /\ pool' = Append(pool, g[c].subs[g[c].i])
  /\ g' = [g EXCEPT ![c] =
             IF g[c].i < Len(g[c].subs) THEN [g[c] EXCEPT !.i = @ + 1]
             ELSE [g[c] EXCEPT !.pc = "wf_unstop", !.ph = "load", !.subs = <<>>, !.i = 0]]
  /\ UNCHANGED <<nums, kat, insectVars, sc, now, oth, state, action, coroutine, subControls, drv, counter, nUpd, segs>>

\* ------------------------------------------------------ driver script
ScriptLen == Len(DriverScript(sc))
AtScript(op) ==
  /\ Depth = 0 /\ drv.pc = "top" /\ drv.ip <= ScriptLen
  /\ DriverScript(sc)[drv.ip].op = op
DriverDone == Depth = 0 /\ drv.ip > ScriptLen

\* Script.Update(): script.baseControl.update()
CallUpdate ==
  [drv EXCEPT !.stack = <<Frame(Root, "u_isRestarting")>>, !.pc = "in", !.resumed = FALSE]

\* "for !script.IsDone() { script.Update() }": IsDone() loads the state word ...
Script_IsDone_IsRunning ==
  /\ AtScript("loop")
  /\ IF IsRunning(state[Root])
     THEN /\ CanUpdate(sc, nUpd)
          /\ drv' = CallUpdate
          /\ nUpd' = Bump(sc, nUpd)
     ELSE /\ drv' = [drv EXCEPT !.pc = "isdone2"]
          /\ nUpd' = nUpd
  /\ UNCHANGED <<nums, kat, insectVars, sc, now, oth, state, action, coroutine, subControls, pool, g, counter, segs>>

\* ... and the action word when the Control is not running
Script_IsDone_isRestarting ==
  /\ Depth = 0 /\ drv.pc = "isdone2"
  /\ IF isRestarting(action[Root])
     THEN /\ CanUpdate(sc, nUpd)
          /\ drv' = CallUpdate
          /\ nUpd' = Bump(sc, nUpd)
     ELSE /\ drv' = [drv EXCEPT !.pc = "top", !.ip = @ + 1]
          /\ nUpd' = nUpd
  /\ UNCHANGED <<nums, kat, insectVars, sc, now, oth, state, action, coroutine, subControls, pool, g, counter, segs>>

\* a single Script.Update() call of the script
Script_Update ==
  /\ (AtScript("update") \/ AtScript("forever"))
  /\ CanUpdate(sc, nUpd)
  /\ drv' = CallUpdate
  /\ nUpd' = Bump(sc, nUpd)
  /\ UNCHANGED <<nums, kat, insectVars, sc, now, oth, state, action, coroutine, subControls, pool, g, counter, segs>>

\* Script.Update() has returned to the script
Script_UpdateReturn ==
  /\ Depth = 0 /\ drv.pc = "ret"
  /\ drv' = [drv EXCEPT !.pc = "top", !.resumed = FALSE,
                        !.ip = IF DriverScript(sc)[drv.ip].op \in {"loop", "forever"} THEN @ ELSE @ + 1]
  /\ UNCHANGED <<nums, kat, insectVars, sc, now, oth, state, action, coroutine, subControls, pool, g, counter, nUpd, segs>>

\* Script.Cancel(): ctrl.action.Store(actionCancel)
Script_Cancel ==
  /\ AtScript("cancel")
  /\ action' = [action EXCEPT ![Root] = {actionCancel}]
  /\ drv' = [drv EXCEPT !.ip = @ + 1]
  /\ UNCHANGED <<nums, kat, insectVars, sc, now, oth, state, coroutine, subControls, pool, g, counter, nUpd, segs>>

\* Script.Restart(): bits.Set(&ctrl.action, actionRestart), the Load; also the
\* Restart() that ends Transition()
Script_Restart ==
  /\ IF Depth = 0 /\ drv.pc = "tr_restart" THEN TRUE ELSE AtScript("restart")
  /\ drv' = [drv EXCEPT !.pc = "in",
               !.susp = IF drv.pc = "tr_restart" THEN @ ELSE g[Root].pc = "y_recv",
               !.stack = <<[Frame(Root, "rs_action") EXCEPT !.ph = "cas", !.tmp = action[Root]]>>]
  /\ UNCHANGED <<nums, kat, insectVars, sc, now, oth, state, action, coroutine, subControls, pool, g, counter, nUpd, segs>>

\* Script.Transition(newCoroutine): ctrl.coroutine = newCoroutine; "at" keeps
\* the number of Update() calls begun so far
Script_Transition ==
  /\ AtScript("transition")
  /\ coroutine' = [coroutine EXCEPT ![Root] = DriverScript(sc)[drv.ip].a]
  /\ drv' = [drv EXCEPT !.pc = "tr_cancel", !.susp = (g[Root].pc = "y_recv"), !.at = nUpd]
  /\ UNCHANGED <<nums, kat, insectVars, sc, now, oth, state, action, subControls, pool, g, counter, nUpd, segs>>

\* Transition: ctrl.Cancel()
Transition_Cancel ==
  /\ Depth = 0 /\ drv.pc = "tr_cancel"
  /\ action' = [action EXCEPT ![Root] = {actionCancel}]
  /\ drv' = [drv EXCEPT !.pc = "tr_restart"]
  /\ UNCHANGED <<nums, kat, insectVars, sc, now, oth, state, coroutine, subControls, pool, g, counter, nUpd, segs>>

\* ------------------------------------------------------ other threads
OtherLen(t) == Len(OtherScript(sc, t))
OtherAt(t, op) ==
  /\ oth[t].pc = "top" /\ oth[t].ip <= OtherLen(t)
  /\ OtherScript(sc, t)[oth[t].ip].op = op
\* the thread's position after a call has returned
OtherReturn(t) ==
  [oth[t] EXCEPT !.pc = "top", !.tmp = {},
                 !.ip = IF OtherRepeats(sc) /\ @ = OtherLen(t) THEN 1 ELSE @ + 1]

\* script.Cancel() on another thread, also the Cancel() inside its
\* Transition(): ctrl.action.Store(actionCancel)
Other_Cancel(t) ==
  /\ OtherAt(t, "cancel") \/ oth[t].pc = "tr_cancel"
  /\ action' = [action EXCEPT ![Root] = {actionCancel}]
  /\ oth' = [oth EXCEPT ![t] = IF oth[t].pc = "tr_cancel" THEN [@ EXCEPT !.pc = "tr_restart"]
                                ELSE OtherReturn(t)]
  /\ UNCHANGED <<nums, kat, insectVars, sc, now, state, coroutine, subControls, pool, g, drv, counter, nUpd, segs>>

\* script.Restart() on another thread, also the Restart() that ends its
\* Transition(): bits.Set(&ctrl.action, actionRestart), value := bits.Load()
Other_Restart(t) ==
  /\ OtherAt(t, "restart") \/ oth[t].pc = "tr_restart"
  /\ oth' = [oth EXCEPT ![t].pc = "rs_cas", ![t].tmp = action[Root]]
  /\ UNCHANGED <<nums, kat, insectVars, sc, now, state, action, coroutine, subControls, pool, g, drv, counter, nUpd, segs>>

\* bits.CompareAndSwap(value, value|actionRestart), and the call returns
Other_RestartCas(t) ==
  /\ oth[t].pc = "rs_cas"
  /\ action' = [action EXCEPT ![Root] =
                  CompareAndSwap(@, oth[t].tmp, SetBits(oth[t].tmp, {actionRestart}))]
  /\ oth' = [oth EXCEPT ![t] = OtherReturn(t)]
  /\ UNCHANGED <<nums, kat, insectVars, sc, now, state, coroutine, subControls, pool, g, drv, counter, nUpd, segs>>

\* script.Transition(newCoroutine) on another thread: ctrl.coroutine =
\* newCoroutine; "at" keeps the number of Update() calls begun so far
Other_Transition(t) ==
  /\ OtherAt(t, "transition")
  /\ coroutine' = [coroutine EXCEPT ![Root] = OtherScript(sc, t)[oth[t].ip].a]
  /\ oth' = [oth EXCEPT ![t].pc = "tr_cancel", ![t].at = nUpd]
  /\ UNCHANGED <<nums, kat, insectVars, sc, now, state, action, subControls, pool, g, drv, counter, nUpd, segs>>

Other(t) ==
  \/ Other_Cancel(t)
  \/ Other_Restart(t)
  \/ Other_RestartCas(t)
  \/ Other_Transition(t)

\* ------------------------------------------------- driver: atombits calls
DBitOp(f) ==
  CASE f.pc = "ac_state" ->   \* applyCancel: bits.Set(&ctrl.state, stateCancel)
         [word |-> "state", on |-> f.c, set |-> TRUE, flags |-> {stateCancel}, next |-> "ac_action"]
    [] f.pc = "ac_action" ->  \* applyCancel: bits.Unset(&ctrl.action, actionCancel)
         [word |-> "action", on |-> f.c, set |-> FALSE, flags |-> {actionCancel}, next |-> "u_chk"]
    [] f.pc = "ur_action" ->  \* update: bits.Unset(&ctrl.action, actionRestart)
         [word |-> "action", on |-> f.c, set |-> FALSE, flags |-> {actionRestart}, next |-> "ar_state"]
    [] f.pc = "ar_state" ->   \* applyRestart: bits.Unset(&ctrl.state, stateCancel)
         [word |-> "state", on |-> f.c, set |-> FALSE, flags |-> {stateCancel}, next |-> "ar_action"]
    [] f.pc = "ar_action" ->  \* applyRestart: bits.Unset(&ctrl.action, actionRestart|actionCancel)
         [word |-> "action", on |-> f.c, set |-> FALSE, flags |-> {actionRestart, actionCancel}, next |-> "u_chk"]
    [] f.pc = "rs_action" ->  \* Restart: bits.Set(&ctrl.action, actionRestart)
         [word |-> "action", on |-> f.c, set |-> TRUE, flags |-> {actionRestart}, next |-> "return"]

DBitPcs == {"ac_state", "ac_action", "ur_action", "ar_state", "ar_action", "rs_action"}

\* value := bits.Load()
DBitLoad ==
  /\ Depth > 0 /\ Top.pc \in DBitPcs /\ Top.ph = "load"
  /\ drv' = SetTop([Top EXCEPT !.tmp = Word(DBitOp(Top)), !.ph = "cas"])
  /\ UNCHANGED <<nums, kat, insectVars, sc, now, oth, state, action, coroutine, subControls, pool, g, counter, nUpd, segs>>

\* bits.CompareAndSwap(value, ...); applyCancel ends with "restartNow = false"
DBitCas ==
  /\ Depth > 0 /\ Top.pc \in DBitPcs /\ Top.ph = "cas"
  /\ LET op == DBitOp(Top)
         w == CompareAndSwap(Word(op), Top.tmp, NewValue(op, Top.tmp))
     IN /\ state' = IF op.word = "state" THEN [state EXCEPT ![op.on] = w] ELSE state
        /\ action' = IF op.word = "action" THEN [action EXCEPT ![op.on] = w] ELSE action
        /\ drv' = IF op.next = "return"
                  THEN [drv EXCEPT !.stack = <<>>, !.pc = "top", !.ip = @ + 1]
                  ELSE SetTop([Top EXCEPT !.pc = op.next, !.ph = "load", !.tmp = {},
                                          !.rn = IF Top.pc = "ac_action" THEN FALSE ELSE @])
  /\ UNCHANGED <<nums, kat, insectVars, sc, now, oth, coroutine, subControls, pool, g, counter, nUpd, segs>>

\* ----------------------------------------------------- Control.update
\* restartNow := ctrl.isRestarting()
update_isRestarting ==
  /\ InFrame("u_isRestarting")
  /\ drv' = SetTop([Top EXCEPT !.rn = isRestarting(action[Top.c]), !.pc = "u_isCancelling"])
  /\ UNCHANGED <<nums, kat, insectVars, sc, now, oth, state, action, coroutine, subControls, pool, g, counter, nUpd, segs>>

\* an update() that applies a cancellation for a pending Restart as well
CancelOnRestart(cancelling, restartNow) ==
  IF cancelling \/ restartNow THEN "ac_state" ELSE "u_chk"

\* the branch taken after "if ctrl.isCancelling() ... else if restartNow"
AfterIsCancelling(cancelling, restartNow) ==
  IF cancelling THEN "ac_state" ELSE IF restartNow THEN "ur_action" ELSE "u_chk"

\* if ctrl.isCancelling() { applyCancel ... } else if restartNow { ... applyRestart }
update_isCancelling ==
  /\ InFrame("u_isCancelling")
  /\ drv' = SetTop([Top EXCEPT !.pc = AfterIsCancelling(isCancelling(action[Top.c]), Top.rn)])
  /\ UNCHANGED <<nums, kat, insectVars, sc, now, oth, state, action, coroutine, subControls, pool, g, counter, nUpd, segs>>

\* ctrl.coroutine != nil && (ctrl.IsRunning() || restartNow)
ShouldYieldLeft(body, st, restartNow) == body # "nil" /\ (IsRunning(st) \/ restartNow)

\* if ctrl.coroutine != nil && (...) { ctrl.kanata.YieldLeft() }
update_checkRunning ==
  /\ InFrame("u_chk")
  /\ drv' = SetTop([Top EXCEPT !.rn = FALSE, !.pc =
               IF ShouldYieldLeft(coroutine[Top.c], state[Top.c], Top.rn)
               THEN "yl_send" ELSE "u_subs"])
  /\ UNCHANGED <<nums, kat, insectVars, sc, now, oth, state, action, coroutine, subControls, pool, g, counter, nUpd, segs>>

\* subs := ctrl.subControls (under RLock); "if len(subs) > 0", else update returns
update_readSubs ==
  /\ InFrame("u_subs")
  /\ drv' = IF subControls[Top.c] = <<>> THEN Pop
            ELSE SetTop([Top EXCEPT !.subs = subControls[Top.c], !.pc = "u_stopping"])
  /\ UNCHANGED <<nums, kat, insectVars, sc, now, oth, state, action, coroutine, subControls, pool, g, counter, nUpd, segs>>

\* if bits.IsSet(&ctrl.state, stateStopping)
update_isStopping ==
  /\ InFrame("u_stopping")
  /\ drv' = SetTop([Top EXCEPT !.stop = IsSet(state[Top.c], stateStopping), !.i = 1,
                               !.pc = "u_loop"])
  /\ UNCHANGED <<nums, kat, insectVars, sc, now, oth, state, action, coroutine, subControls, pool, g, counter, nUpd, segs>>

\* the index of the sub visited after the i-th
NextSub(i) == i + 1

\* "for _, sub := range subs { sub.update() ... }": the call of sub.update().
\* When stopping nothing follows the call in the loop body.
update_callSub ==
  /\ InFrame("u_loop") /\ Top.i <= Len(Top.subs)
  /\ LET called == [Top EXCEPT !.seen = Append(@, Top.subs[Top.i])] IN
     drv' = Push(IF Top.stop THEN [called EXCEPT !.i = NextSub(@)] ELSE [called EXCEPT !.pc = "u_after"],
                 Frame(Top.subs[Top.i], "u_isRestarting"))
  /\ UNCHANGED <<nums, kat, insectVars, sc, now, oth, state, action, coroutine, subControls, pool, g, counter, nUpd, segs>>

\* after the loop: "if hasRemoved { ctrl.subControls = ctrl.tempSubControls }"
\* (under Lock), and update returns
update_endSubs ==
  /\ InFrame("u_loop") /\ Top.i > Len(Top.subs)
  /\ subControls' = IF ~Top.stop /\ Top.rem
                    THEN [subControls EXCEPT ![Top.c] = Top.temp] ELSE subControls
  /\ drv' = Pop
  /\ UNCHANGED <<nums, kat, insectVars, sc, now, oth, state, action, coroutine, pool, g, counter, nUpd, segs>>

\* "if sub.IsDone()", first load: a running sub is kept in tempSubControls
update_sub_IsRunning ==
  /\ InFrame("u_after")
  /\ drv' = SetTop(IF IsRunning(state[Top.subs[Top.i]])
                   THEN [Top EXCEPT !.temp = Append(@, Top.subs[Top.i]), !.i = NextSub(@),
                                    !.pc = "u_loop"]
                   ELSE [Top EXCEPT !.pc = "u_after2"])
  /\ UNCHANGED <<nums, kat, insectVars, sc, now, oth, state, action, coroutine, subControls, pool, g, counter, nUpd, segs>>

\* "if sub.IsDone()", second load: a done sub is freed, hasRemoved = true
update_sub_isRestarting ==
  /\ InFrame("u_after2")
  /\ LET sub == Top.subs[Top.i] IN
     IF isRestarting(action[sub])
     THEN /\ drv' = SetTop([Top EXCEPT !.temp = Append(@, sub), !.i = NextSub(@), !.pc = "u_loop"])
          /\ pool' = pool
     ELSE /\ drv' = SetTop([Top EXCEPT !.rem = TRUE, !.i = NextSub(@), !.pc = "u_loop"])
          /\ pool' = Append(pool, sub)
  /\ UNCHANGED <<nums, kat, insectVars, sc, now, oth, state, action, coroutine, subControls, g, counter, nUpd, segs>>

\* ------------------------------------------------ insectoid variant
\* quest.Task: pending, resolved or cancelled; once resolved or cancelled it
\* stays so until it is reset
TaskResolve(st) == IF st = "pending" THEN "resolved" ELSE st
TaskCancel(st) == IF st = "pending" THEN "cancelled" ELSE st

\* Cancel() that sets the flag, clears the child set and cancels the update
\* task, but leaves the registered sub-insects alone
RECURSIVE CancelEachShallow(_, _)
CancelEachShallow(list, w) ==
  IF list = <<>> THEN w
  ELSE LET i == Head(list) IN
       IF w.canceled[i] THEN CancelEachShallow(Tail(list), w)
       ELSE CancelEachShallow(Tail(list),
              [w EXCEPT !.canceled[i] = TRUE, !.subInsects[i] = <<>>,
                        !.tasks[Task("updateTask", i)] = TaskCancel(@)])

\* insectoid.Cancel() on every insect of a list, in order; w holds the
\* canceled flags, the child sets and the tasks
RECURSIVE CancelEach(_, _)
CancelEach(list, w) ==
  IF list = <<>> THEN w
  ELSE LET i == Head(list) IN
       IF w.canceled[i] THEN CancelEach(Tail(list), w)
       ELSE LET w1 == CancelEach(w.subInsects[i], [w EXCEPT !.canceled[i] = TRUE])
                w2 == [w1 EXCEPT !.subInsects[i] = <<>>,
                                 !.tasks[Task("updateTask", i)] = TaskCancel(@)]
            IN CancelEach(Tail(list), w2)

\* insectoid.update() on every insect of a list: a canceled insect returns at
\* once; otherwise updateTask.TaskResolve(None) and the update() of its subs
RECURSIVE UpdateEach(_, _)
UpdateEach(list, w) ==
  IF list = <<>> THEN w
  ELSE LET i == Head(list) IN
       IF w.canceled[i] THEN UpdateEach(Tail(list), w)
       ELSE UpdateEach(Tail(list),
              UpdateEach(w.subInsects[i], [w EXCEPT !.tasks[Task("updateTask", i)] = TaskResolve(@)]))

World == [canceled |-> canceled, subInsects |-> subInsects, tasks |-> tasks]
SetWorld(w) ==
  /\ canceled' = w.canceled
  /\ subInsects' = w.subInsects
  /\ tasks' = w.tasks

\* the body of the calling insect: "task := StartAsyncAR(in, coroutine, arg)":
\* insect.create() (spawnInsectoid, reset, subInsects.Add), the two tasks are
\* allocated and the two goroutines started
StartAsyncAR_create ==
  /\ co.body = "spawn"
  /\ subInsects' = [subInsects EXCEPT !["insect"] = Append(@, "subInsect")]
  /\ co' = [co EXCEPT !.body = "await", !.sub = "yield", !.cleanup = "completion"]
  /\ UNCHANGED <<nums, kat, controlVars, canceled, tasks>>

\* the body of the calling insect: "task.Await()" (blocker.SetPanic(true): a
\* cancelled task panics with ErrCancelled), and the statement after it
Await ==
  \/ /\ co.body = "await" /\ tasks[Task("blocker", "subInsect")] # "pending"
     /\ co' = [co EXCEPT !.body = IF tasks[Task("blocker", "subInsect")] = "resolved" THEN "after" ELSE "done"]
     /\ UNCHANGED <<nums, kat, controlVars, canceled, subInsects, tasks>>
  \/ /\ co.body = "after"
     /\ co' = [co EXCEPT !.body = "done"]
     /\ UNCHANGED <<nums, kat, controlVars, canceled, subInsects, tasks>>

\* if !subInsect.canceled && !insect.IsCanceled()
MayResolve(subCanceled, insectCanceled) == ~subCanceled /\ ~insectCanceled

\* the second goroutine of StartAsyncAR: the coroutine (it yields once and
\* returns its result), the test of the two canceled flags, one read each,
\* blocker.TaskResolve(result), and the deferred completion.TaskResolve(None)
StartAsyncAR_coroutine ==
  \/ /\ co.sub = "yield" /\ tasks[Task("updateTask", "subInsect")] # "pending"
     /\ IF tasks[Task("updateTask", "subInsect")] = "resolved"
        THEN /\ tasks' = [tasks EXCEPT ![Task("updateTask", "subInsect")] = "pending"]
             /\ co' = [co EXCEPT !.sub = "read_sub"]
        ELSE /\ tasks' = tasks
             /\ co' = [co EXCEPT !.sub = "complete"]
     /\ UNCHANGED <<nums, kat, controlVars, canceled, subInsects>>
  \/ /\ co.sub = "read_sub"
     /\ co' = [co EXCEPT !.sub = IF MayResolve(canceled["subInsect"], FALSE)
                                 THEN "read_insect" ELSE "complete"]
     /\ UNCHANGED <<nums, kat, controlVars, canceled, subInsects, tasks>>
  \/ /\ co.sub = "read_insect"
     /\ co' = [co EXCEPT !.sub = IF MayResolve(FALSE, canceled["insect"])
                                 THEN "resolve" ELSE "complete"]
     /\ UNCHANGED <<nums, kat, controlVars, canceled, subInsects, tasks>>
  \/ /\ co.sub = "resolve"
     /\ tasks' = [tasks EXCEPT ![Task("blocker", "subInsect")] = TaskResolve(@)]
     /\ co' = [co EXCEPT !.sub = "complete", !.resolves = @ + 1]
     /\ UNCHANGED <<nums, kat, controlVars, canceled, subInsects>>
  \/ /\ co.sub = "complete"
     /\ tasks' = [tasks EXCEPT ![Task("completion", "subInsect")] = TaskResolve(@)]
     /\ co' = [co EXCEPT !.sub = "done"]
     /\ UNCHANGED <<nums, kat, controlVars, canceled, subInsects>>

\* the first goroutine of StartAsyncAR: completion.Anticipate(); if the
\* blocker was cancelled, subInsect.Cancel() and the release
StartAsyncAR_cleanup ==
  \/ /\ co.cleanup = "completion" /\ tasks[Task("completion", "subInsect")] # "pending"
     /\ co' = [co EXCEPT !.cleanup = "blocker"]
     /\ UNCHANGED <<nums, kat, controlVars, canceled, subInsects, tasks>>
  \/ /\ co.cleanup = "blocker" /\ tasks[Task("blocker", "subInsect")] # "pending"
     /\ co' = [co EXCEPT !.cleanup = IF tasks[Task("blocker", "subInsect")] = "resolved" THEN "done" ELSE "cancel"]
     /\ UNCHANGED <<nums, kat, controlVars, canceled, subInsects, tasks>>
  \/ /\ co.cleanup = "cancel"
     /\ SetWorld(CancelEach(<<"subInsect">>, World))
     /\ co' = [co EXCEPT !.cleanup = "done"]
     /\ UNCHANGED <<nums, kat, controlVars>>

\* another thread calls Cancel(), twice at most: insect.Cancel() on the
\* calling insect, or task.Cancel() on the future
Cancel ==
  /\ co.ext # "done"
  /\ \/ SetWorld(CancelEach(<<"insect">>, World))
     \/ /\ co.body # "spawn"
        /\ tasks' = [tasks EXCEPT ![Task("blocker", "subInsect")] = TaskCancel(@)]
        /\ UNCHANGED <<canceled, subInsects>>
  /\ co' = [co EXCEPT !.ext = IF @ = "top" THEN "once" ELSE "done"]
  /\ UNCHANGED <<nums, kat, controlVars>>

\* the driver: insect.update() on the calling insect
insectoid_update ==
  /\ co.updates < MaxUpdatesInsect
  /\ SetWorld(UpdateEach(<<"insect">>, World))
  /\ co' = [co EXCEPT !.updates = @ + 1]
  /\ UNCHANGED <<nums, kat, controlVars>>

NextInsect ==
  \/ StartAsyncAR_create
  \/ Await
  \/ StartAsyncAR_coroutine
  \/ StartAsyncAR_cleanup
  \/ Cancel
  \/ insectoid_update

\* ---------------------------------------------------------------- Next
Goroutine(c) ==
  \/ GBitLoad(c)
  \/ GBitCas(c)
  \/ Yield_isCanceled(c)
  \/ BodyInc(c)
  \/ BodyCancel(c)
  \/ StartAsync_alloc(c)
  \/ StartAsync_append(c)
  \/ YieldUntil_IsRunning(c)
  \/ YieldUntil_isRestarting(c)
  \/ Sleep_Now(c)
  \/ Sleep_Since(c)
  \/ waitForSubsToEnd_read(c)
  \/ waitForSubsToEnd_cancel(c)
  \/ waitForSubsToEnd_IsRunning(c)
  \/ waitForSubsToEnd_isRestarting(c)
  \/ waitForSubsToEnd_clear(c)
  \/ waitForSubsToEnd_free(c)

Driver ==
  \/ Script_IsDone_IsRunning
  \/ Script_IsDone_isRestarting
  \/ Script_Update
  \/ Script_UpdateReturn
  \/ Script_Cancel
  \/ Script_Restart
  \/ Script_Transition
  \/ Transition_Cancel
  \/ DBitLoad
  \/ DBitCas
  \/ update_isRestarting
  \/ update_isCancelling
  \/ update_checkRunning
  \/ update_readSubs
  \/ update_isStopping
  \/ update_callSub
  \/ update_endSubs
  \/ update_sub_IsRunning
  \/ update_sub_isRestarting

Next ==
  \/ Driver
  \/ \E c \in Ctrl : Goroutine(c)
  \/ \E c \in Ctrl : katana(c)
  \/ \E t \in Others : Other(t)
  \/ Tick

Init == InitOf(Scenarios)
Spec == Init /\ [][Next]_vars

\* the same program driven through the scenario of the two short-lived children
InitTwins == InitOf(TwinsScenarios)
SpecTwins == InitTwins /\ [][Next]_vars

\* the scenarios whose driver calls Update() for ever, under a scheduler that
\* lets every thread and goroutine that can take a step take one eventually
InitLive ==
  InitOf(LiveScenarios \cup {"CancelLoop", "CancelOne", "WaitChild", "Transition", "Sleep"})
Fairness ==
  /\ WF_vars(Driver)
  /\ \A c \in Ctrl : WF_vars(Goroutine(c)) /\ WF_vars(katana(c))
  /\ \A t \in Others : WF_vars(Other(t))
  /\ WF_vars(Tick)
SpecLive == InitLive /\ [][Next]_vars /\ Fairness

\* the insectoid variant: one StartAsyncAR, its two goroutines, an awaiting
\* body, a driver and a thread that cancels
SpecInsect == InitOf({"Futures"}) /\ [][NextInsect]_vars

\* one katana, one thread that calls YieldLeft again and again and one
\* goroutine that calls YieldRight again and again
SpecKatana == InitOf({"Katana"}) /\ [][NextKatana]_vars

\* one sliceSet and a caller of Add, Remove and Clear
SpecSliceSet == InitOf({"SliceSet"}) /\ [][NextSliceSet]_vars

\* =============================================================== claims
\* a goroutine that is executing statements of its body (between the return
\* of one YieldRight and the entry into the next)
Executing(c) == g[c].pc \in {"body", "sp_restart", "sp_append", "until2", "sl_since"}
\* a goroutine that was resumed and has neither blocked in a gate wait again
\* nor left its body
Resumed(c) == Executing(c) \/ g[c].pc \in {"lr_run", "y_check"}
\* the driver blocked inside YieldLeft
DriverInHandshake == InFrame("yl_send")
\* Control.IsDone() evaluated on the current words
IsDone(c) == ~IsRunning(state[c]) /\ ~isRestarting(action[c])
\* goroutine c takes a step of its body
BodyStep(c) == Executing(c) /\ g'[c] # g[c]
\* the Controls that hold d in their child list, and theirs
Parents(d) == {a \in Ctrl : \E k \in 1..Len(subControls[a]) : subControls[a][k] = d}
Ancestors(d) == Parents(d) \cup UNION {Parents(a) : a \in Parents(d)}
\* loopRunner past the body, inside waitForSubsToEnd
InTermination(c) ==
  g[c].pc \in {"wf_stop", "wf_read", "wf_cancel", "wf_poll", "wf_poll2", "wf_recv",
               "wf_clear", "wf_free", "wf_unstop"}

\* the script has called Cancel() and one Update() after it has returned
AfterCancelAndUpdate == sc \in {"CancelOne", "CancelTree"} /\ drv.ip >= 5

\* C1: at most one body executes user statements at any time, and none does
\* while the driver runs outside a gate handshake.
C1_MutualExclusion ==
  /\ Cardinality({c \in Ctrl : Executing(c)}) <= 1
  /\ (\E c \in Ctrl : Executing(c)) => DriverInHandshake

\* C2: when Update() returns, the body it resumed is blocked in a gate wait
\* or has returned.
C2_UpdateBlocksUntilYield ==
  (Depth = 0 /\ drv.pc = "ret" /\ drv.resumed) => ~Resumed(Root)

\* C3: the number of segments a body has started never exceeds the number of
\* Update() calls that have begun.
C3_SingleStep == \A c \in Ctrl : segs[c] <= nUpd

\* C4: a body without Yield() performs its side effect exactly once when
\* driven until IsDone(), and one Update() call is enough.
C4_NoYieldRunsOnce ==
  sc = "NoYield" =>
    /\ counter <= 1
    /\ DriverDone => (counter = 1 /\ nUpd = 1)

\* C5: run to Done, Restart(), run to Done again: the body ran exactly twice.
C5_RestartRunsTwice ==
  sc = "Restart" =>
    /\ counter <= 2
    /\ DriverDone => counter = 2

\* C6: the body that cancels itself at iteration CancelAt executes nothing
\* after its next Yield(): the counter ends at CancelAt + 1 and the script
\* is Done.
C6_SelfCancel ==
  sc = "CancelLoop" =>
    /\ counter <= CancelAt + 1
    /\ DriverDone => (counter = CancelAt + 1 /\ IsDone(Root))

\* C7: after Cancel() and one Update() (the script is past its fourth
\* operation), IsDone() is true and neither the body nor a descendant's body
\* performs a further side effect.
C7_CancelImmediate ==
  /\ [](AfterCancelAndUpdate /\ Depth = 0 => IsDone(Root))
  /\ [][AfterCancelAndUpdate => counter' = counter]_vars

\* C8: once an Update() has applied a Cancel to a task (its latch is set),
\* no body of a descendant takes another step.
C8_HierarchicalCancel ==
  [][\A d \in Ctrl :
       BodyStep(d) => \A a \in Ancestors(d) : ~isCanceled(state[a])]_vars

\* C9: in TestAsyncSimple a child executes no statement after its parent's
\* body has returned, and the counter ends at SegA + (SegA + 1) * IncB (1110
\* for the 10 segments of the test).
C9_ChildStopsWithParent ==
  /\ [](sc = "AsyncSimple" /\ DriverDone => counter = SegA + (SegA + 1) * IncB)
  /\ [][sc = "AsyncSimple" =>
          \A d \in Ctrl : BodyStep(d) => \A a \in Parents(d) : ~InTermination(a)]_vars

\* C10: after Transition(newBody) on a task whose old body is suspended in
\* Yield(), the old body executes no further statement.
C10_TransitionAtomic ==
  [][~(drv.susp /\ g[Root].body # coroutine[Root] /\ BodyStep(Root))]_vars

\* the script of scenario "Create" has not called Transition() yet
BeforeTransition == sc = "Create" /\ Depth = 0 /\ drv.pc = "top" /\ drv.ip <= 3

\* C13: a script made by Create() is Done: IsDone() is true right after
\* Create() and after every Update() that precedes the first Transition().
C13_CreateIsDone == BeforeTransition => IsDone(Root)

\* Restart() has been called on the body of scenario "RestartRunning" while
\* it was suspended in Yield(), and has returned
RestartedSuspended == sc = "RestartRunning" /\ drv.ip >= 4 /\ drv.susp
\* the body "stepper" adds 1 when it is entered and IncB in every later
\* segment: the counter is 1 modulo IncB until the body is entered again
EnteredOnce == counter % IncB = 1

\* C15: after Restart() on a body suspended in Yield(), the old invocation
\* executes no further statement (the counter does not grow by IncB before
\* the body is entered again), and the two Update() calls that follow enter
\* the body again.
C15_RestartCancelsFirst ==
  /\ [][RestartedSuspended /\ EnteredOnce => counter' \in {counter, counter + 1}]_vars
  /\ [](RestartedSuspended /\ DriverDone => ~EnteredOnce)

\* the step in which Script.IsDone() returns true to the script
IsDoneReturnsTrue == Depth = 0 /\ drv.pc = "isdone2" /\ drv'.ip = drv.ip + 1
\* the step in which the Restart() of TestCoroutineRestart returns; the
\* script called it after IsDone() had returned true
RestartReturns == sc = "Restart" /\ InFrame("rs_action") /\ Depth' = 0
\* right after Start(body), before the first Update()
JustStarted == sc # "Create" /\ nUpd = 0 /\ drv.ip = 1

\* C20: IsDone() returns true only when the task is not running and no
\* Restart is pending; it is false right after Start(body), and right after
\* Restart() on a task that was reported Done.
C20_IsDoneMeaning ==
  /\ [][IsDoneReturnsTrue => IsDone(Root)]_vars
  /\ [](JustStarted => ~IsDone(Root))
  /\ [][RestartReturns => (IsRunning(state'[Root]) \/ isRestarting(action'[Root]))]_vars

\* C11: in the scenario where another thread calls Transition(newBody)
\* while the driver keeps calling Update(), the new body is eventually
\* entered.
C11_TransitionLiveness == (sc = "TransitionAsync") => <>(g[Root].body = "yields")

\* C17: every call the driver makes returns, whatever Cancel(), Restart()
\* and Transition() calls the other threads make meanwhile.
C17_UpdateReturns == (Depth > 0) ~> (Depth = 0)
\* an Update() of TestTransition2 has woken the goroutine and returned after
\* a Cancel of another thread was applied, while the other thread is inside
\* the Restart() of its Transition()
C17_Witness ==
  /\ sc = "Hammer" /\ Depth = 0 /\ drv.pc = "ret" /\ drv.resumed
  /\ isCanceled(state[Root]) /\ oth[1].pc = "rs_cas" /\ oth[1].ip = 2

\* C18: the body of TestBlocking is never reported Done before NumYields
\* Update() calls have begun, and it is reported Done eventually.
C18_DoneAfterYields ==
  /\ [](sc = "Blocking" /\ drv.ip > 1 => nUpd >= NumYields)
  /\ (sc = "Blocking" => <>(drv.ip > 1))

\* the body given by Transition() to a script made by Create() takes a step
CreatedBodyStep == sc \in {"Create", "CreateAsync"} /\ BodyStep(Root)
\* Update() calls begun when that Transition() was called
TransitionAt == IF sc = "Create" THEN drv.at ELSE oth[1].at

NoUpdateOn(c) == \A k \in 1..Depth : drv.stack[k].c # c
\* the cancellation latch of c is raised in this step
LatchRaised(c) == isCanceled(state'[c]) /\ ~isCanceled(state[c])

\* C16: Cancel() only stores the pending action.  While a Cancel is pending
\* on a task whose body is suspended in Yield() and no update() on the task
\* is in progress, its state word (latch, running flag) and its goroutine do
\* not change; the latch is raised only by the applyCancel of an update() on
\* the task, while the Cancel is pending.
C16_CancelDeferred ==
  /\ [][\A c \in Ctrl :
          (isCancelling(action[c]) /\ g[c].pc = "y_recv" /\ NoUpdateOn(c))
            => (state'[c] = state[c] /\ g'[c] = g[c])]_vars
  /\ [][\A c \in Ctrl :
          LatchRaised(c) => (InFrame("ac_state") /\ Top.c = c /\ isCancelling(action[c]))]_vars
\* Cancel() has returned, the body is still suspended in its Yield() with the
\* latch clear, and the next Update() has not begun
C16_Witness ==
  /\ sc = "CancelOne" /\ drv.ip = 4 /\ Depth = 0 /\ drv.pc = "top"
  /\ isCancelling(action[Root]) /\ ~isCanceled(state[Root]) /\ IsRunning(state[Root])
  /\ g[Root].pc = "y_recv"

\* the body of c makes the step of a Cancel() on the SubControl in one of its
\* variables
SubCancelStep(c) == AtStatement(c, "cancel") /\ CurIns(c).a # 0 /\ g'[c] # g[c]

\* C19: cancellation never flows upward.  The step of a Cancel() on a child
\* returned by StartAsync changes the pending action and the state word of no
\* other Control; in the program whose parent cancels its first child, the
\* parent and the sibling never have a Cancel pending nor the latch raised,
\* they keep their running flag once the parent is past its first Yield(),
\* and when the driver is done each of them has run at least two segments.
C19_NoUpwardCancel ==
  /\ [][\A c \in Ctrl :
          SubCancelStep(c) =>
            \A d \in Ctrl \ {g[c].slots[CurIns(c).a]} :
              action'[d] = action[d] /\ state'[d] = state[d]]_vars
  /\ [](sc = "CancelChild" =>
          /\ \A c \in {Root, 2} :
               /\ ~isCanceled(state[c]) /\ ~isCancelling(action[c])
               /\ (g[Root].bpc >= 5 => IsRunning(state[c]))
          /\ DriverDone => (counter % IncB >= 2 /\ counter >= 2 * IncB))
\* the child was cancelled and has stopped, the parent and the sibling are
\* still running and have run their segments of every Update()
C19_Witness ==
  /\ sc = "CancelChild" /\ DriverDone
  /\ isCanceled(state[1]) /\ ~IsRunning(state[1])
  /\ IsRunning(state[Root]) /\ IsRunning(state[2])
  /\ counter = 3 * IncB + 2

\* C14: determinism.  For the program of nested StartAsync coroutines whose
\* parent cancels its first child, driven by Update() calls from one thread,
\* the recorded total at the end of the driver's script is the same in every
\* execution: one segment of the sibling in each Update() and one segment of
\* the parent in each Update() after the first.
C14_Deterministic ==
  (sc = "CancelChild" /\ DriverDone) =>
    counter = Len(DriverScript(sc)) * IncB + (Len(DriverScript(sc)) - 1)

\* C21 as stated: Sleep(D) returns only when the time elapsed since it was
\* entered is at least D.
C21_SleepLowerBound ==
  [][\A c \in Ctrl :
       LET SleepReturns == g[c].pc = "sl_since" /\ g'[c].bpc # g[c].bpc
       IN SleepReturns => now - g[c].startTime >= CurIns(c).a]_vars

\* C21, amended: Sleep(D) returns only after a Yield() at which the elapsed
\* time, in whole microseconds, is at least D in whole microseconds; it
\* suspends in Yield() at least once, whatever D is; and the driver's
\* "for !IsDone() { Update() }" ends only after both Sleeps of the body have
\* returned and the whole microseconds of the second have elapsed.
C21_SleepMicroseconds ==
  /\ [][\A c \in Ctrl :
          LET SleepReturns == g[c].pc = "sl_since" /\ g'[c].bpc # g[c].bpc
          IN SleepReturns =>
               Microseconds(now - g[c].startTime) >= Microseconds(CurIns(c).a)]_vars
  /\ [][\A c \in Ctrl :
          LET SleepEntered == g[c].pc = "body" /\ CurIns(c).op = "sleep" /\ g'[c] # g[c]
          IN SleepEntered => g'[c].pc = "y_recv"]_vars
  /\ [](sc = "Sleep" /\ DriverDone =>
          counter >= IncB + 1 /\ Microseconds(now) >= Microseconds(SleepTicks))
\* the body of TestSleep has finished and was reported Done although less
\* than SleepTicks ticks passed since its Sleep(SleepTicks) was entered
C21_Witness ==
  /\ sc = "Sleep" /\ DriverDone /\ counter = IncB + 1
  /\ now - g[Root].startTime < SleepTicks

\* C22: the future of StartAsyncAR is resolved at most once; it is not
\* resolved once the insectoid of the coroutine or the calling insectoid is
\* cancelled; and Await() hands a value to the awaiting body, which then runs
\* the statements after it, only while neither of them is cancelled.
C22_FutureAfterCancel ==
  /\ [](co.resolves <= 1)
  /\ [][(co.sub = "resolve" /\ co'.sub # co.sub)
          => (~canceled["subInsect"] /\ ~canceled["insect"])]_vars
  /\ [][(co.body = "await" /\ co'.body = "after")
          => (~canceled["subInsect"] /\ ~canceled["insect"])]_vars

\* C23: on one katana with one caller of YieldLeft and one caller of
\* YieldRight, the k-th YieldLeft returns only after the k-th YieldRight has
\* begun, the k-th YieldRight returns only after the k-th YieldLeft has begun,
\* and the numbers of completed calls of the two never differ by more than one.
C23_GatePairing ==
  LET l == "YieldLeft"
      r == "YieldRight"
  IN /\ kat.completed[l] <= kat.begun[r]
     /\ kat.completed[r] <= kat.begun[l]
     /\ kat.completed[l] - kat.completed[r] \in {-1, 0, 1}

\* the second YieldLeft has returned while the second YieldRight has not
C23_Witness ==
  /\ kat.completed["YieldLeft"] = 2
  /\ kat.completed["YieldRight"] = 1
  /\ kat.begun["YieldRight"] = 2

\* C24: Cancel wins over Restart.  A Restart() called while a Cancel is
\* pending leaves Cancel alone as the pending action, a Cancel() called while a
\* Restart is pending replaces it; and in both orders, once the next Update()
\* has returned, no action is pending and no later Update() re-enters the body.
C24_CancelWinsOverRestart ==
  /\ [](sc \in {"CancelRestart", "RestartCancel"} /\ drv.ip = 5 /\ drv.pc = "top"
         => action[Root] = {actionCancel})
  /\ [](sc \in {"CancelRestart", "RestartCancel"} /\ drv.ip >= 6 => action[Root] = {})
  /\ [][(sc \in {"CancelRestart", "RestartCancel"} /\ drv.ip >= 6)
         => (segs'[Root] = segs[Root])]_vars

\* C25: a task cancelled between Start() and the first Update() never
\* executes a statement of its body: no segment of the body is started and
\* the counter its first statement adds to stays 0.
C25_CancelledBeforeEntry ==
  sc = "CancelFirst" => (segs[Root] = 0 /\ counter = 0)

\* C26: a task whose body has returned with live children brings them to Done
\* inside its own termination sequence: it never waits there for another
\* Update() of the script, and once the Update() that applied the Cancel of
\* the parent of TestCancelTree's kind has returned, the parent is Done.
C26_TerminationNeedsNoUpdate ==
  /\ (Depth = 0 /\ drv.pc = "top") => \A c \in Ctrl : g[c].pc # "wf_recv"
  /\ (sc = "CancelTree" /\ drv.ip >= 5) => IsDone(Root)

\* C27: a child spawned with StartAsync runs its first segment within the
\* Update() call in which its parent spawned it: where the parent's first
\* statement is the StartAsync, the first segment of the child starts while
\* the first Update() of the script is still in progress.
C27_ChildRunsInSpawningUpdate ==
  [][(sc = "WaitChild" /\ \E c \in Pooled : segs[c] = 0 /\ segs'[c] = 1)
       => (Depth > 0 /\ nUpd = 1)]_vars

\* C28: within one Update() the tree is walked top-down: update() is called
\* on a child only from the sweep of its parent's update(), which follows the
\* parent's own gate handshake, and when the sweep of a task ends, the children
\* it called update() on are exactly those of its child list as read at the
\* start of the sweep, each once.
C28_SweepVisitsEachOnce ==
  /\ [][Len(drv'.stack) > Depth /\ Depth > 0
          => (Top.pc = "u_loop" /\ drv'.stack[Depth + 1].c = Top.subs[Top.i])]_vars
  /\ [][(InFrame("u_loop") /\ Top.i > Len(Top.subs) /\ drv' # drv)
          => (/\ Top.seen = Top.subs
              /\ \A j, k \in 1..Len(Top.subs) : Top.subs[j] = Top.subs[k] => j = k)]_vars

\* C29: a child never outlives its parent.  Whenever a task that has run
\* reports IsDone(), its child list is empty and every child it spawned has
\* finished (is not running, executes nothing) and has been released to the
\* pool.  The tasks looked at are the main tasks of the scenarios in which
\* only the main task spawns and runs once.
C29_ChildNeverOutlivesParent ==
  (sc \in {"AsyncSimple", "WaitChild", "CancelTree", "CancelChild", "Twins"}
     /\ segs[Root] > 0 /\ IsDone(Root))
    => /\ subControls[Root] = <<>>
       /\ \A d \in Pooled :
            coroutine[d] # "nil"
              => /\ ~IsRunning(state[d]) /\ ~Executing(d)
                 /\ \E k \in 1..Len(pool) : pool[k] = d

\* C30: a body that an Update() resumed with the cancellation latch set finds
\* the latch set when its Yield() returns and aborts there, whatever the
\* driver has begun meanwhile; and the latch is cleared only by the
\* applyRestart of an update() on the task.
C30_ResumedBodySeesLatch ==
  /\ [][\A c \in Ctrl :
          (g[c].pc = "y_check" /\ g[c].latched /\ g'[c] # g[c]) => g'[c].pc = "wf_stop"]_vars
  /\ [][\A c \in Ctrl :
          (isCanceled(state[c]) /\ ~isCanceled(state'[c]))
            => (InFrame("ar_state") /\ Top.c = c)]_vars

\* C39: atombits.Set and atombits.Unset are atomic read-modify-write
\* operations: when a Set or Unset call of the coroutine's goroutine or of
\* the driver returns, the flags it was given are set, respectively unset, in
\* the word, whatever another thread did to the word during the call.
C39_SetUnsetAtomic ==
  /\ [][\A c \in Ctrl :
          (g[c].pc \in GBitPcs /\ g[c].ph = "cas" /\ g'[c] # g[c])
            => LET op == GBitOp(c)
                   w == IF op.word = "state" THEN state'[op.on] ELSE action'[op.on]
               IN IF op.set THEN op.flags \subseteq w ELSE op.flags \cap w = {}]_vars
  /\ [][(Depth > 0 /\ Top.pc \in DBitPcs /\ Top.ph = "cas" /\ drv' # drv)
          => LET op == DBitOp(Top)
                 w == IF op.word = "state" THEN state'[op.on] ELSE action'[op.on]
             IN IF op.set THEN op.flags \subseteq w ELSE op.flags \cap w = {}]_vars

\* C36: each child Control is released to the pool at most once per
\* allocation: the pool never holds the same Control twice (the sweep of
\* update() and waitForSubsToEnd never both free one child), so that
\* allocCoroutine never hands one Control to two StartAsync calls and no
\* Control is registered as a child twice.
C36_ReleasedAtMostOnce ==
  /\ \A i, j \in DOMAIN pool : (i # j) => (pool[i] # pool[j])
  /\ \A p, q \in Ctrl : \A i \in DOMAIN subControls[p] : \A j \in DOMAIN subControls[q] :
        (subControls[p][i] = subControls[q][j]) => (p = q /\ i = j)

\* C37: the sweep of update() releases a child only after its body has
\* finished: at the step that frees a child, the child's goroutine is back at
\* the top of loopRunner waiting at the gate; it has not just been let through
\* the gate, and its body is neither executing nor suspended in a Yield.
C37_SweepFreesOnlyFinished ==
  [][(InFrame("u_after2") /\ drv' # drv /\ ~isRestarting(action[Top.subs[Top.i]]))
       => (g[Top.subs[Top.i]].pc = "lr_recv")]_vars

C35_NoCancelLost ==
  [][\A c \in Ctrl :
       (isCancelling(action[c]) /\ ~isCancelling(action'[c]))
         => (InFrame("ac_action") /\ Top.c = c /\ isCanceled(state[c]))]_vars

\* C38: a child registered by StartAsync is not dropped by the sweep of
\* update(): when the sweep stores the filtered list, every Control that was
\* in the parent's child list and is not in it afterwards is one that the
\* sweep itself examined; a child appended while the sweep was filtering
\* stays in the list.
C38_SweepKeepsNewChild ==
  [][(InFrame("u_loop") /\ Top.i > Len(Top.subs) /\ drv' # drv)
       => \A k \in DOMAIN subControls[Top.c] :
            \/ \E j \in DOMAIN subControls'[Top.c] :
                  subControls'[Top.c][j] = subControls[Top.c][k]
            \/ \E j \in DOMAIN Top.subs : Top.subs[j] = subControls[Top.c][k]]_vars

C31_CancellationBecomesDone ==
  /\ [][\A c \in Ctrl :
          (g[c].pc = "y_check" /\ isCanceled(state[c]) /\ g'[c] # g[c])
            => (g'[c].pc = "wf_stop")]_vars
  /\ [][(RootBody(sc) = "ticker" /\ g[Root].pc = "lr_unrun" /\ g[Root].ph = "cas"
           /\ g'[Root] # g[Root])
          => ~IsRunning(state'[Root])]_vars

\* C32: sliceSet keeps set semantics under any sequence of Add, Remove and
\* Clear: Each visits no element twice; after Add(x), x is a member; after
\* Remove(x), x is not a member and every other member is still there exactly
\* once, and nothing else is; after Clear() the set is empty.
C32_SetSemantics ==
  /\ [](\A i, j \in DOMAIN Each(nums.items) :
          (i # j) => (Each(nums.items)[i] # Each(nums.items)[j]))
  /\ [](nums.op = "Add" => Index(nums.items, nums.x) >= 0)
  /\ [](nums.op = "Remove" => Index(nums.items, nums.x) < 0)
  /\ [](nums.op = "Clear" => Each(nums.items) = <<>>)
  /\ [][(nums'.op = "Remove" /\ nums' # nums)
          => \A y \in Elems \ {nums'.x} :
               Cardinality({k \in DOMAIN nums'.items : nums'.items[k] = y})
                 = IF Index(nums.items, y) >= 0 THEN 1 ELSE 0]_vars

====
